---- MODULE Spec2Model ----
(***************************************************************************)
(* Reviewer assignment service: internal/service (the business rules) on   *)
(* top of internal/repository (the SQL statements), run by concurrent      *)
(* request workers against one PostgreSQL database at the default          *)
(* READ COMMITTED isolation.                                               *)
(*                                                                         *)
(* The tables are modelled as the statements of repository.go address      *)
(* them: pull_requests carries the text column "status" the statements     *)
(* read and write, and the arbiter of UpsertMembership is user_id, as its  *)
(* ON CONFLICT clause names it.  One step of a worker is one SQL statement *)
(* (or a statement plus the BEGIN before it: NOW() is the transaction's    *)
(* start time).  A transaction's writes stay in tx[p], invisible to the    *)
(* other workers, until its COMMIT; the rows and keys it has written are   *)
(* locked, and a statement of another worker that needs one of them waits. *)
(***************************************************************************)
EXTENDS Naturals, Sequences, FiniteSets, TLC

\* ---------------------------------------------------------------- universe
Procs == {"w1", "w2"}
Teams == {"t1", "t2"}
Users == {"u1", "u2", "u3", "u4", "u5"}
Names == {"n1", "n2"}
PRIds == {"pr1"}

\* Operations invoked in one behaviour, and members listed in one CreateTeam.
MaxOps == 3
MaxMembers == 2

NoTeam == "none"
OPEN == "OPEN"
MERGED == "MERGED"
\* merged_at IS NULL
NullTime == 0

ErrTeamExists == "TeamExists"
ErrTeamNotFound == "TeamNotFound"
ErrUserNotFound == "UserNotFound"
ErrPullRequestExists == "PullRequestExists"
ErrPullRequestNotFound == "PullRequestNotFound"
ErrPullRequestMerged == "PullRequestMerged"
ErrReviewerNotAssigned == "ReviewerNotAssigned"
ErrNoCandidate == "NoCandidate"
\* any error outside the taxonomy (a wrapped storage error)
ErrInternal == "Internal"
OK == "ok"

VARIABLES
    teams,              \* table teams: the team names (team_id <-> team_name)
    users,              \* table users: user_id -> [username, is_active]
    team_memberships,   \* table team_memberships: rows <<team, user_id>>
    pull_requests,      \* table pull_requests: id -> [author, status, created_at, merged_at]
    pr_reviewers,       \* table pr_reviewers: rows [pr, reviewer, assigned_at]
    clock,              \* the wall clock, read by BEGIN (NOW()) and by s.now()
    pc,                 \* per worker: the statement it runs next
    call,               \* per worker: the operation and its arguments
    loc,                \* per worker: the locals of the service method
    tx,                 \* per worker: the uncommitted writes of its transaction
    res,                \* per worker: the error returned, OK, or "" while running
    ret,                \* per worker: the value returned on success
    nops                \* operations invoked so far

db == <<teams, users, team_memberships, pull_requests, pr_reviewers>>
vars == <<teams, users, team_memberships, pull_requests, pr_reviewers, clock,
          pc, call, loc, tx, res, ret, nops>>

\* ----------------------------------------------------------------- helpers
Range(s) == {s[i] : i \in DOMAIN s}

Min(a, b) == IF a < b THEN a ELSE b

\* sequences of length n over S without repetition
Arrangements(S, n) == {s \in [1..n -> S] : \A i, j \in 1..n : i # j => s[i] # s[j]}

\* the requests the workers take their arguments from: team and activity
\* requests name RequestUsers (with a username no stored user has yet), pull
\* requests are opened by Authors, reassignments name OldReviewers
RequestUsers == {"u1", "u2"}
RequestNames == {"n2"}
Authors == {"u1", "u3"}
OldReviewers == {"u1", "u2"}

\* the member lists a CreateTeam request carries: [user, username, active]
MemberRecs == [user : RequestUsers, username : RequestNames, active : BOOLEAN]

MemberLists ==
    UNION {{s \in [1..n -> MemberRecs] :
              \A i, j \in 1..n : i # j => s[i].user # s[j].user} : n \in 0..MaxMembers}

\* no uncommitted write: teams inserted, user/membership upserts in statement
\* order, pull request rows inserted, reviewer rows inserted and deleted,
\* pull request rows updated by the merge (id -> merged_at)
EmptyTx == [teams |-> {}, upserts |-> <<>>, prs |-> <<>>, ins |-> {}, del |-> {},
            merge |-> <<>>]

NoCall == [op |-> "", team |-> NoTeam, members |-> <<>>, user |-> "", active |-> FALSE,
           pr |-> ""]

\* the locals of a service method; deleted (the rows the DELETE of this call
\* removed) is kept for the properties only
NoLoc == [team |-> NoTeam, author |-> "", status |-> "", merged_at |-> NullTime,
          reviewers |-> <<>>, sel |-> <<>>, i |-> 0, now |-> NullTime, deleted |-> {}]

NoRet == [status |-> "", merged_at |-> NullTime, reviewers |-> <<>>,
          replacement |-> "", members |-> {}, team |-> NoTeam, active |-> FALSE,
          prs |-> <<>>]

\* the reviewer ids of a pull request, from the committed rows
Reviewers(prID) == {r.reviewer : r \in {x \in pr_reviewers : x.pr = prID}}

ReviewerRows(prID) == {x \in pr_reviewers : x.pr = prID}

\* the teams a user has a membership row in
TeamsOf(u) == {m[1] : m \in {x \in team_memberships : x[2] = u}}

MembersOf(t) == {m[2] : m \in {x \in team_memberships : x[1] = t}}

\* ------------------------------------------------- repository: the queries
\* GetUser: the team ids the LEFT JOIN yields for the user (NoTeam: NULL)
GetUser(u) == IF TeamsOf(u) = {} THEN {NoTeam} ELSE TeamsOf(u)

\* ActiveTeamMembers without "u.is_active = TRUE"
ActiveTeamMembers_AnyActivity(teamID, exclude) ==
    {u \in DOMAIN users : <<teamID, u>> \in team_memberships /\ u \notin exclude}

\* ActiveTeamMembers without "user_id <> ALL($2)"
ActiveTeamMembers_NoExclude(teamID, exclude) ==
    {u \in DOMAIN users : <<teamID, u>> \in team_memberships /\ users[u].active}

\* the rows the WHERE clause of ListRandomActiveTeamMembers keeps
ActiveTeamMembers(teamID, exclude) ==
    {u \in DOMAIN users : /\ <<teamID, u>> \in team_memberships
                          /\ users[u].active
                          /\ u \notin exclude}

\* ListRandomActiveTeamMembers without the LIMIT
ListRandomActiveTeamMembers_NoLimit(teamID, exclude, limit) ==
    LET Q == {u \in DOMAIN users : /\ <<teamID, u>> \in team_memberships
                                   /\ users[u].active
                                   /\ u \notin exclude}
    IN  Arrangements(Q, Cardinality(Q))

\* ListRandomActiveTeamMembers with a LIMIT one too small
ListRandomActiveTeamMembers_ShortLimit(teamID, exclude, limit) ==
    LET Q == {u \in DOMAIN users : /\ <<teamID, u>> \in team_memberships
                                   /\ users[u].active
                                   /\ u \notin exclude}
    IN  Arrangements(Q, Min(limit - 1, Cardinality(Q)))

\* ListRandomActiveTeamMembers with a fixed order in place of random()
ListRandomActiveTeamMembers_Ordered(teamID, exclude, limit) ==
    LET Q == {u \in DOMAIN users : /\ <<teamID, u>> \in team_memberships
                                   /\ users[u].active
                                   /\ u \notin exclude}
    IN  {CHOOSE s \in Arrangements(Q, Min(limit, Cardinality(Q))) : TRUE}

\* ORDER BY random() LIMIT limit: every arrangement of min(limit, k) of them
ListRandomActiveTeamMembers(teamID, exclude, limit) ==
    LET Q == ActiveTeamMembers(teamID, exclude)
    IN  Arrangements(Q, Min(limit, Cardinality(Q)))

\* ORDER BY assigned_at: every order of the rows that assigned_at allows
ListReviewers(prID) ==
    LET R == ReviewerRows(prID)
        n == Cardinality(R)
        ord == {q \in Arrangements(R, n) :
                  \A i, j \in 1..n : i < j => q[i].assigned_at <= q[j].assigned_at}
    IN  {[i \in 1..n |-> q[i].reviewer] : q \in ord}

\* ListPullRequestsForReviewer with ORDER BY pr.created_at (ascending)
ListPullRequestsForReviewer_Ascending(userID) ==
    LET R == {r \in pr_reviewers : r.reviewer = userID /\ r.pr \in DOMAIN pull_requests}
        n == Cardinality(R)
        ord == {q \in Arrangements(R, n) :
                  \A i, j \in 1..n : i < j =>
                      pull_requests[q[i].pr].created_at <= pull_requests[q[j].pr].created_at}
    IN  {[i \in 1..n |-> [id |-> q[i].pr, author |-> pull_requests[q[i].pr].author,
                          status |-> pull_requests[q[i].pr].status]] : q \in ord}

\* ListPullRequestsForReviewer: pr_reviewers JOIN pull_requests WHERE
\* reviewer_id = $1 ORDER BY pr.created_at DESC, one short form per joined row
ListPullRequestsForReviewer(userID) ==
    LET R == {r \in pr_reviewers : r.reviewer = userID /\ r.pr \in DOMAIN pull_requests}
        n == Cardinality(R)
        ord == {q \in Arrangements(R, n) :
                  \A i, j \in 1..n : i < j =>
                      pull_requests[q[i].pr].created_at >= pull_requests[q[j].pr].created_at}
    IN  {[i \in 1..n |-> [id |-> q[i].pr, author |-> pull_requests[q[i].pr].author,
                          status |-> pull_requests[q[i].pr].status]] : q \in ord}

\* listTeamMembersByTeamID (the ORDER BY username is not modelled: a set)
ListTeamMembers(t) ==
    {[user |-> u, username |-> users[u].username, active |-> users[u].active] :
        u \in MembersOf(t) \cap DOMAIN users}

\* ---------------------------------------------- repository: the statements
\* InsertTeam: the unique violation on team_name
InsertTeam(teamName) == IF teamName \in teams THEN ErrTeamExists ELSE OK

\* UpsertUser: INSERT ... ON CONFLICT (user_id) DO UPDATE username, is_active
UpsertUser(tbl, m) ==
    [u \in DOMAIN tbl \cup {m.user} |->
        IF u = m.user THEN [username |-> m.username, active |-> m.active] ELSE tbl[u]]

\* UpsertMembership with the pair (team_id, user_id) as the arbiter
UpsertMembership_PairKey(tbl, teamID, userID) == tbl \cup {<<teamID, userID>>}

\* UpsertMembership with ON CONFLICT (user_id) DO NOTHING
UpsertMembership_DoNothing(tbl, teamID, userID) ==
    IF \E m \in tbl : m[2] = userID THEN tbl ELSE tbl \cup {<<teamID, userID>>}

\* UpsertMembership that inserts no row for a user the table does not have
UpsertMembership_UpdateOnly(tbl, teamID, userID) ==
    IF \E m \in tbl : m[2] = userID
    THEN {m \in tbl : m[2] # userID} \cup {<<teamID, userID>>}
    ELSE tbl

\* UpsertMembership: INSERT ... ON CONFLICT (user_id) DO UPDATE team_id
UpsertMembership(tbl, teamID, userID) ==
    {m \in tbl : m[2] # userID} \cup {<<teamID, userID>>}

\* SetUserActive without "WHERE user_id = $1"
SetUserActive_NoWhere(tbl, userID, isActive) ==
    [u \in DOMAIN tbl |-> [tbl[u] EXCEPT !.active = isActive]]

\* SetUserActive: UPDATE users SET is_active WHERE user_id
SetUserActive(tbl, userID, isActive) ==
    [u \in DOMAIN tbl |-> IF u = userID THEN [tbl[u] EXCEPT !.active = isActive] ELSE tbl[u]]

\* InsertPullRequest without the unique key
InsertPullRequest_NoUnique(prID) == OK

\* CreatePullRequest (repository): the unique violation on pull_request_id
InsertPullRequest(prID) == IF prID \in DOMAIN pull_requests THEN ErrPullRequestExists ELSE OK

\* the row a creation inserts, with the wrong status
NewPullRequest_Merged(authorID, now) ==
    [author |-> authorID, status |-> MERGED, created_at |-> now, merged_at |-> NullTime]

\* the row CreatePullRequest inserts: status OPEN, created_at = NOW(),
\* merged_at NULL
NewPullRequest(authorID, now) ==
    [author |-> authorID, status |-> OPEN, created_at |-> now, merged_at |-> NullTime]

\* AddReviewers that stops before the last id
AddReviewers_DropLast(prID, reviewerIDs, now) ==
    {[pr |-> prID, reviewer |-> reviewerIDs[i], assigned_at |-> now] :
        i \in DOMAIN reviewerIDs \ {Len(reviewerIDs)}}

\* AddReviewers: one row per id, assigned_at = NOW() of the transaction
AddReviewers(prID, reviewerIDs, now) ==
    {[pr |-> prID, reviewer |-> reviewerIDs[i], assigned_at |-> now] : i \in DOMAIN reviewerIDs}

\* ReplaceReviewer, the DELETE: the committed rows it removes
DeleteReviewer(prID, oldReviewerID) ==
    {r \in pr_reviewers : r.pr = prID /\ r.reviewer = oldReviewerID}

\* DeleteOutcome without the check of RowsAffected
DeleteOutcome_Ignored(rows) == OK

\* ReplaceReviewer, the check of RowsAffected after the DELETE
DeleteOutcome(rows) == IF Cardinality(rows) = 0 THEN ErrReviewerNotAssigned ELSE OK

\* InsertReviewerOutcome without the unique key
InsertReviewerOutcome_NoUnique(p, prID, newReviewerID) == OK

\* ReplaceReviewer, the INSERT: the unique violation on (pull_request_id,
\* reviewer_id), seen against the committed rows and the worker's own writes
InsertReviewerOutcome(p, prID, newReviewerID) ==
    IF \E r \in (pr_reviewers \ tx[p].del) \cup tx[p].ins :
           r.pr = prID /\ r.reviewer = newReviewerID
    THEN ErrInternal ELSE OK

\* MarkPullRequestMerged with merged_at = $3
MarkPullRequestMerged_Overwrite(row, mergedAt) ==
    [row EXCEPT !.status = MERGED, !.merged_at = mergedAt]

\* MarkPullRequestMerged with merged_at = GREATEST(merged_at, $3)
MarkPullRequestMerged_Greatest(row, mergedAt) ==
    [row EXCEPT !.status = MERGED,
                !.merged_at = IF row.merged_at > mergedAt THEN row.merged_at ELSE mergedAt]

\* MarkPullRequestMerged that sets the status and leaves merged_at
MarkPullRequestMerged_StatusOnly(row, mergedAt) == [row EXCEPT !.status = MERGED]

\* MarkPullRequestMerged: merged_at = COALESCE(merged_at, $3)
MarkPullRequestMerged(row, mergedAt) ==
    [row EXCEPT !.status = MERGED,
                !.merged_at = IF row.merged_at # NullTime THEN row.merged_at ELSE mergedAt]

\* ------------------------------------------------------------- transactions
RECURSIVE ApplyUserUpserts(_, _)
ApplyUserUpserts(tbl, ups) ==
    IF ups = <<>> THEN tbl ELSE ApplyUserUpserts(UpsertUser(tbl, Head(ups)), Tail(ups))

RECURSIVE ApplyMembershipUpserts(_, _)
ApplyMembershipUpserts(tbl, ups) ==
    IF ups = <<>> THEN tbl
    ELSE ApplyMembershipUpserts(UpsertMembership(tbl, Head(ups).team, Head(ups).user), Tail(ups))

LockedUsers(q) == {tx[q].upserts[i].user : i \in DOMAIN tx[q].upserts}

\* RunInTx, tx.Commit: the writes of worker p become the committed rows
Commit(p) ==
    /\ teams' = teams \cup tx[p].teams
    /\ users' = ApplyUserUpserts(users, tx[p].upserts)
    /\ team_memberships' = ApplyMembershipUpserts(team_memberships, tx[p].upserts)
    /\ pull_requests' =
          [id \in DOMAIN pull_requests \cup DOMAIN tx[p].prs |->
              IF id \in DOMAIN tx[p].prs THEN tx[p].prs[id]
              ELSE IF id \in DOMAIN tx[p].merge THEN tx[p].merge[id]
              ELSE pull_requests[id]]
    /\ pr_reviewers' = (pr_reviewers \ tx[p].del) \cup tx[p].ins
    /\ tx' = [tx EXCEPT ![p] = EmptyTx]

\* the workers whose uncommitted writes the next statement of p waits for
WaitsOn(p) ==
    LET others == Procs \ {p}
    IN  CASE pc[p] = "ct_member" ->
               {q \in others : call[p].members[loc[p].i].user \in LockedUsers(q)}
          [] pc[p] = "rr_insert" ->
               {q \in others : \E r \in tx[q].del \cup tx[q].ins :
                                   r.pr = call[p].pr /\ r.reviewer = loc[p].sel[1]}
          [] pc[p] = "rr_delete" ->
               {q \in others : \E r \in tx[q].del :
                                   r.pr = call[p].pr /\ r.reviewer = call[p].user}
          [] pc[p] = "cp_insert" ->
               {q \in others : call[p].pr \in DOMAIN tx[q].prs}
          [] pc[p] = "mp_update" ->
               {q \in others : call[p].pr \in DOMAIN tx[q].merge}
          [] OTHER -> {}

RECURSIVE WaitClosure(_)
WaitClosure(S) ==
    LET N == S \cup UNION {WaitsOn(q) : q \in S}
    IN  IF N = S THEN S ELSE WaitClosure(N)

\* no deadlock detection: a cycle of waiting transactions is never broken
Deadlocked_Never(p) == p \in {}

\* p is on a cycle of waiting transactions
Deadlocked(p) == p \in WaitClosure(WaitsOn(p))

\* the end of an operation: RunInTx rolls the transaction back on an error
Finish(p, err) ==
    /\ pc' = [pc EXCEPT ![p] = "done"]
    /\ res' = [res EXCEPT ![p] = err]
    /\ tx' = [tx EXCEPT ![p] = EmptyTx]

Invoke(p, c) ==
    /\ pc[p] \in {"idle", "done"}
    /\ nops < MaxOps
    /\ nops' = nops + 1
    /\ call' = [call EXCEPT ![p] = c]

SetLoc(p, l) == loc' = [loc EXCEPT ![p] = l]

\* ------------------------------------------------------- Service.CreateTeam
\* the call, BEGIN and InsertTeam (which waits for an uncommitted insert of
\* the same team_name)
CreateTeam_Insert(p, teamName, members) ==
    /\ Invoke(p, [NoCall EXCEPT !.op = "CreateTeam", !.team = teamName, !.members = members])
    /\ \A q \in Procs \ {p} : teamName \notin tx[q].teams
    /\ SetLoc(p, [NoLoc EXCEPT !.i = 1])
    /\ ret' = [ret EXCEPT ![p] = NoRet]
    /\ IF InsertTeam(teamName) # OK
       THEN Finish(p, InsertTeam(teamName))
       ELSE /\ tx' = [tx EXCEPT ![p] = [EmptyTx EXCEPT !.teams = {teamName}]]
            /\ pc' = [pc EXCEPT ![p] = IF members = <<>> THEN "ct_commit" ELSE "ct_member"]
            /\ res' = [res EXCEPT ![p] = ""]
    /\ UNCHANGED <<db, clock>>

\* one turn of the loop: UpsertUser and UpsertMembership of members[i]
CreateTeam_Member(p) ==
    /\ pc[p] = "ct_member"
    /\ WaitsOn(p) = {}
    /\ LET m == call[p].members[loc[p].i]
           w == [user |-> m.user, username |-> m.username, active |-> m.active,
                 team |-> call[p].team]
       IN  tx' = [tx EXCEPT ![p].upserts = Append(@, w)]
    /\ SetLoc(p, [loc[p] EXCEPT !.i = @ + 1])
    /\ pc' = [pc EXCEPT ![p] = IF loc[p].i = Len(call[p].members)
                                THEN "ct_commit" ELSE "ct_member"]
    /\ UNCHANGED <<db, clock, call, res, ret, nops>>

CreateTeam_Commit(p) ==
    /\ pc[p] = "ct_commit"
    /\ Commit(p)
    /\ pc' = [pc EXCEPT ![p] = "ct_get"]
    /\ UNCHANGED <<clock, call, loc, res, ret, nops>>

\* GetTeamByName after the commit
CreateTeam_Get(p) ==
    /\ pc[p] = "ct_get"
    /\ IF call[p].team \notin teams
       THEN /\ Finish(p, ErrTeamNotFound)
            /\ ret' = ret
       ELSE /\ Finish(p, OK)
            /\ ret' = [ret EXCEPT ![p] = [NoRet EXCEPT !.team = call[p].team,
                                             !.members = ListTeamMembers(call[p].team)]]
    /\ UNCHANGED <<db, clock, call, loc, nops>>

\* -------------------------------------------------- Service.SetUserActivity
\* SetUserActivity that, on a deactivation, also deletes the reviewer rows of
\* the user
SetUserActivity_Unassign(p, userID, isActive) ==
    /\ Invoke(p, [NoCall EXCEPT !.op = "SetUserActivity", !.user = userID, !.active = isActive])
    /\ \A q \in Procs \ {p} : ~(userID \in DOMAIN users /\ userID \in LockedUsers(q))
    /\ SetLoc(p, NoLoc)
    /\ IF userID \notin DOMAIN users
       THEN /\ Finish(p, ErrUserNotFound)
            /\ ret' = [ret EXCEPT ![p] = NoRet]
            /\ users' = users
            /\ pr_reviewers' = pr_reviewers
       ELSE /\ Finish(p, OK)
            /\ users' = SetUserActive(users, userID, isActive)
            /\ pr_reviewers' = IF isActive THEN pr_reviewers
                               ELSE {r \in pr_reviewers : r.reviewer # userID}
            /\ \E t \in GetUser(userID) :
                  ret' = [ret EXCEPT ![p] = [NoRet EXCEPT !.team = t, !.active = isActive]]
    /\ UNCHANGED <<teams, team_memberships, pull_requests, clock>>

\* one statement in its own transaction; it waits while the user's committed
\* row is locked by an uncommitted upsert
SetUserActivity(p, userID, isActive) ==
    /\ Invoke(p, [NoCall EXCEPT !.op = "SetUserActivity", !.user = userID, !.active = isActive])
    /\ \A q \in Procs \ {p} : ~(userID \in DOMAIN users /\ userID \in LockedUsers(q))
    /\ SetLoc(p, NoLoc)
    /\ IF userID \notin DOMAIN users
       THEN /\ Finish(p, ErrUserNotFound)
            /\ ret' = [ret EXCEPT ![p] = NoRet]
            /\ users' = users
       ELSE /\ Finish(p, OK)
            /\ users' = SetUserActive(users, userID, isActive)
            /\ \E t \in GetUser(userID) :
                  ret' = [ret EXCEPT ![p] = [NoRet EXCEPT !.team = t, !.active = isActive]]
    /\ UNCHANGED <<teams, team_memberships, pull_requests, pr_reviewers, clock>>

\* ------------------------------------------------ Service.CreatePullRequest
\* CreatePullRequest_GetUser with the id looked up before the author
CreatePullRequest_GetUser_IdFirst(p, prID, authorID) ==
    /\ Invoke(p, [NoCall EXCEPT !.op = "CreatePullRequest", !.pr = prID, !.user = authorID])
    /\ ret' = [ret EXCEPT ![p] = NoRet]
    /\ IF prID \in DOMAIN pull_requests
       THEN /\ Finish(p, ErrPullRequestExists)
            /\ SetLoc(p, NoLoc)
       ELSE IF authorID \notin DOMAIN users
       THEN /\ Finish(p, ErrUserNotFound)
            /\ SetLoc(p, NoLoc)
       ELSE \E t \in GetUser(authorID) :
              /\ SetLoc(p, [NoLoc EXCEPT !.team = t, !.author = authorID])
              /\ IF t = NoTeam
                 THEN Finish(p, ErrTeamNotFound)
                 ELSE /\ pc' = [pc EXCEPT ![p] = "cp_insert"]
                      /\ res' = [res EXCEPT ![p] = ""]
                      /\ tx' = tx
    /\ UNCHANGED <<db, clock>>

\* the call and GetUser(authorID)
CreatePullRequest_GetUser(p, prID, authorID) ==
    /\ Invoke(p, [NoCall EXCEPT !.op = "CreatePullRequest", !.pr = prID, !.user = authorID])
    /\ ret' = [ret EXCEPT ![p] = NoRet]
    /\ IF authorID \notin DOMAIN users
       THEN /\ Finish(p, ErrUserNotFound)
            /\ SetLoc(p, NoLoc)
       ELSE \E t \in GetUser(authorID) :
              /\ SetLoc(p, [NoLoc EXCEPT !.team = t, !.author = authorID])
              /\ IF t = NoTeam
                 THEN Finish(p, ErrTeamNotFound)
                 ELSE /\ pc' = [pc EXCEPT ![p] = "cp_insert"]
                      /\ res' = [res EXCEPT ![p] = ""]
                      /\ tx' = tx
    /\ UNCHANGED <<db, clock>>

\* CreatePullRequest_Insert with the INSERT run on the pool, outside the
\* transaction: the row is committed at once
CreatePullRequest_Insert_Autocommit(p) ==
    /\ pc[p] = "cp_insert"
    /\ IF InsertPullRequest(call[p].pr) # OK
       THEN /\ Finish(p, InsertPullRequest(call[p].pr))
            /\ UNCHANGED <<clock, loc, pull_requests>>
       ELSE /\ pull_requests' = [id \in DOMAIN pull_requests \cup {call[p].pr} |->
                                   IF id = call[p].pr THEN NewPullRequest(call[p].user, clock)
                                   ELSE pull_requests[id]]
            /\ SetLoc(p, [loc[p] EXCEPT !.now = clock])
            /\ clock' = clock + 1
            /\ pc' = [pc EXCEPT ![p] = "cp_select"]
            /\ UNCHANGED <<res, tx>>
    /\ UNCHANGED <<teams, users, team_memberships, pr_reviewers, call, ret, nops>>

\* BEGIN and the INSERT of the pull request row (created_at = NOW()); it
\* waits for an uncommitted insert of the same id
CreatePullRequest_Insert(p) ==
    /\ pc[p] = "cp_insert"
    /\ WaitsOn(p) = {}
    /\ IF InsertPullRequest(call[p].pr) # OK
       THEN /\ Finish(p, InsertPullRequest(call[p].pr))
            /\ UNCHANGED <<clock, loc>>
       ELSE /\ tx' = [tx EXCEPT ![p].prs =
                        [id \in {call[p].pr} |-> NewPullRequest(call[p].user, clock)]]
            /\ SetLoc(p, [loc[p] EXCEPT !.now = clock])
            /\ clock' = clock + 1
            /\ pc' = [pc EXCEPT ![p] = "cp_select"]
            /\ res' = res
    /\ UNCHANGED <<db, call, ret, nops>>

\* ListRandomActiveTeamMembers(author.TeamID, {author.ID}, 2), on the pool
CreatePullRequest_Select(p) ==
    /\ pc[p] = "cp_select"
    /\ \E s \in ListRandomActiveTeamMembers(loc[p].team, {loc[p].author}, 2) :
          SetLoc(p, [loc[p] EXCEPT !.sel = s])
    /\ pc' = [pc EXCEPT ![p] = "cp_add"]
    /\ UNCHANGED <<db, clock, call, tx, res, ret, nops>>

\* AddReviewers and the COMMIT of the creation
CreatePullRequest_AddCommit(p) ==
    /\ pc[p] = "cp_add"
    /\ pull_requests' = [id \in DOMAIN pull_requests \cup DOMAIN tx[p].prs |->
                            IF id \in DOMAIN tx[p].prs THEN tx[p].prs[id] ELSE pull_requests[id]]
    /\ pr_reviewers' = pr_reviewers \cup AddReviewers(call[p].pr, loc[p].sel, loc[p].now)
    /\ tx' = [tx EXCEPT ![p] = EmptyTx]
    /\ pc' = [pc EXCEPT ![p] = "get_row"]
    /\ UNCHANGED <<teams, users, team_memberships, clock, call, loc, res, ret, nops>>

\* AddReviewers returns an error.  No key of pr_reviewers can reject its
\* rows (the pull request is new, the ids are distinct users), so the error
\* is the storage's own (the connection, the context); the closure returns
\* it and RunInTx rolls the creation back (the locals are not kept)
CreatePullRequest_AddFails(p) ==
    /\ pc[p] = "cp_add"
    /\ Finish(p, ErrInternal)
    /\ SetLoc(p, NoLoc)
    /\ UNCHANGED <<db, clock, call, ret, nops>>

\* GetPullRequest after the commit, first query: the pull request row
GetPullRequest_Row(p) ==
    /\ pc[p] = "get_row"
    /\ IF call[p].pr \notin DOMAIN pull_requests
       THEN /\ Finish(p, IF call[p].op = "CreatePullRequest" THEN ErrPullRequestNotFound
                          ELSE ErrInternal)
            /\ ret' = ret
       ELSE /\ ret' = [ret EXCEPT ![p].status = pull_requests[call[p].pr].status,
                                   ![p].merged_at = pull_requests[call[p].pr].merged_at]
            /\ pc' = [pc EXCEPT ![p] = "get_revs"]
            /\ UNCHANGED <<res, tx>>
    /\ UNCHANGED <<db, clock, call, loc, nops>>

\* GetPullRequest_Reviewers returning the reviewers read before the
\* transaction, not those read after the commit
GetPullRequest_Reviewers_Stale(p) ==
    /\ pc[p] = "get_revs"
    /\ ret' = [ret EXCEPT ![p].reviewers = loc[p].reviewers,
                          ![p].replacement = IF call[p].op = "ReassignReviewer"
                                             THEN loc[p].sel[1] ELSE ""]
    /\ Finish(p, OK)
    /\ UNCHANGED <<db, clock, call, loc, nops>>

\* GetPullRequest after the commit, second query: ListReviewers; the return
GetPullRequest_Reviewers(p) ==
    /\ pc[p] = "get_revs"
    /\ \E s \in ListReviewers(call[p].pr) :
          ret' = [ret EXCEPT ![p].reviewers = s,
                             ![p].replacement = IF call[p].op = "ReassignReviewer"
                                                THEN loc[p].sel[1] ELSE ""]
    /\ Finish(p, OK)
    /\ UNCHANGED <<db, clock, call, loc, nops>>

\* ------------------------------------------------- Service.ReassignReviewer
\* ReassignPrecheck with the two checks in the other order
ReassignPrecheck_AssignedFirst(status, reviewers, oldReviewerID) ==
    IF oldReviewerID \notin Range(reviewers) THEN ErrReviewerNotAssigned
    ELSE IF status = MERGED THEN ErrPullRequestMerged
    ELSE OK

\* ReassignPrecheck without the "is a reviewer" check
ReassignPrecheck_NoAssigned(status, reviewers, oldReviewerID) ==
    IF status = MERGED THEN ErrPullRequestMerged ELSE OK

\* the checks of the pull request read: merged first, then "is a reviewer"
ReassignPrecheck(status, reviewers, oldReviewerID) ==
    IF status = MERGED THEN ErrPullRequestMerged
    ELSE IF oldReviewerID \notin Range(reviewers) THEN ErrReviewerNotAssigned
    ELSE OK

\* Exclude without the author
Exclude_NoAuthor(authorID, reviewers) == Range(reviewers)

\* Exclude without the reviewers read
Exclude_AuthorOnly(authorID, reviewers) == {authorID}

\* exclude = author, then the reviewers read
Exclude(authorID, reviewers) == {authorID} \cup Range(reviewers)

\* the call and the first query of GetPullRequest
ReassignReviewer_Get(p, prID, oldReviewerID) ==
    /\ Invoke(p, [NoCall EXCEPT !.op = "ReassignReviewer", !.pr = prID, !.user = oldReviewerID])
    /\ ret' = [ret EXCEPT ![p] = NoRet]
    /\ IF prID \notin DOMAIN pull_requests
       THEN /\ Finish(p, ErrPullRequestNotFound)
            /\ SetLoc(p, NoLoc)
       ELSE /\ SetLoc(p, [NoLoc EXCEPT !.status = pull_requests[prID].status,
                                        !.author = pull_requests[prID].author,
                                        !.merged_at = pull_requests[prID].merged_at])
            /\ pc' = [pc EXCEPT ![p] = "rr_revs"]
            /\ res' = [res EXCEPT ![p] = ""]
            /\ tx' = tx
    /\ UNCHANGED <<db, clock>>

\* the second query of GetPullRequest, then the merged and assigned checks
ReassignReviewer_Reviewers(p) ==
    /\ pc[p] = "rr_revs"
    /\ \E s \in ListReviewers(call[p].pr) :
          /\ SetLoc(p, [loc[p] EXCEPT !.reviewers = s])
          /\ IF ReassignPrecheck(loc[p].status, s, call[p].user) # OK
             THEN Finish(p, ReassignPrecheck(loc[p].status, s, call[p].user))
             ELSE /\ pc' = [pc EXCEPT ![p] = "rr_user"]
                  /\ UNCHANGED <<res, tx>>
    /\ UNCHANGED <<db, clock, call, ret, nops>>

\* GetUser(oldReviewerID)
ReassignReviewer_GetUser(p) ==
    /\ pc[p] = "rr_user"
    /\ IF call[p].user \notin DOMAIN users
       THEN /\ Finish(p, ErrUserNotFound)
            /\ loc' = loc
       ELSE \E t \in GetUser(call[p].user) :
              /\ SetLoc(p, [loc[p] EXCEPT !.team = t])
              /\ IF t = NoTeam
                 THEN Finish(p, ErrNoCandidate)
                 ELSE /\ pc' = [pc EXCEPT ![p] = "rr_select"]
                      /\ UNCHANGED <<res, tx>>
    /\ UNCHANGED <<db, clock, call, ret, nops>>

\* ListRandomActiveTeamMembers(reviewerUser.TeamID, exclude, 1)
ReassignReviewer_Select(p) ==
    /\ pc[p] = "rr_select"
    /\ \E s \in ListRandomActiveTeamMembers(loc[p].team,
                     Exclude(loc[p].author, loc[p].reviewers), 1) :
          /\ SetLoc(p, [loc[p] EXCEPT !.sel = s])
          /\ IF Len(s) = 0
             THEN Finish(p, ErrNoCandidate)
             ELSE /\ pc' = [pc EXCEPT ![p] = "rr_delete"]
                  /\ UNCHANGED <<res, tx>>
    /\ UNCHANGED <<db, clock, call, ret, nops>>

\* BEGIN and the DELETE of ReplaceReviewer; it waits for an uncommitted delete
\* of the same row
ReassignReviewer_Delete(p) ==
    /\ pc[p] = "rr_delete"
    /\ WaitsOn(p) = {}
    /\ LET rows == DeleteReviewer(call[p].pr, call[p].user)
       IN  IF DeleteOutcome(rows) # OK
           THEN /\ Finish(p, DeleteOutcome(rows))
                /\ UNCHANGED <<clock, loc>>
           ELSE /\ tx' = [tx EXCEPT ![p].del = rows]
                /\ SetLoc(p, [loc[p] EXCEPT !.now = clock, !.deleted = rows])
                /\ clock' = clock + 1
                /\ pc' = [pc EXCEPT ![p] = "rr_insert"]
                /\ res' = res
    /\ UNCHANGED <<db, call, ret, nops>>

\* the INSERT of ReplaceReviewer; it waits for an uncommitted insert or delete
\* of the same (pull_request_id, reviewer_id)
ReassignReviewer_Insert(p) ==
    /\ pc[p] = "rr_insert"
    /\ WaitsOn(p) = {}
    /\ IF InsertReviewerOutcome(p, call[p].pr, loc[p].sel[1]) # OK
       THEN Finish(p, InsertReviewerOutcome(p, call[p].pr, loc[p].sel[1]))
       ELSE /\ tx' = [tx EXCEPT ![p].ins = {[pr |-> call[p].pr, reviewer |-> loc[p].sel[1],
                                              assigned_at |-> loc[p].now]}]
            /\ pc' = [pc EXCEPT ![p] = "rr_commit"]
            /\ res' = res
    /\ UNCHANGED <<db, clock, call, loc, ret, nops>>

ReassignReviewer_Commit(p) ==
    /\ pc[p] = "rr_commit"
    /\ Commit(p)
    /\ pc' = [pc EXCEPT ![p] = "get_row"]
    /\ UNCHANGED <<clock, call, loc, res, ret, nops>>

\* ------------------------------------------------- Service.MergePullRequest
\* the call and the first query of GetPullRequest
MergePullRequest_Get(p, prID) ==
    /\ Invoke(p, [NoCall EXCEPT !.op = "MergePullRequest", !.pr = prID])
    /\ ret' = [ret EXCEPT ![p] = NoRet]
    /\ IF prID \notin DOMAIN pull_requests
       THEN /\ Finish(p, ErrPullRequestNotFound)
            /\ SetLoc(p, NoLoc)
       ELSE /\ SetLoc(p, [NoLoc EXCEPT !.status = pull_requests[prID].status,
                                        !.author = pull_requests[prID].author,
                                        !.merged_at = pull_requests[prID].merged_at])
            /\ pc' = [pc EXCEPT ![p] = "mp_revs"]
            /\ res' = [res EXCEPT ![p] = ""]
            /\ tx' = tx
    /\ UNCHANGED <<db, clock>>

\* the second query of GetPullRequest; an already merged pull request is
\* returned as read
MergePullRequest_Reviewers(p) ==
    /\ pc[p] = "mp_revs"
    /\ \E s \in ListReviewers(call[p].pr) :
          /\ SetLoc(p, [loc[p] EXCEPT !.reviewers = s])
          /\ IF loc[p].status = MERGED
             THEN /\ Finish(p, OK)
                  /\ ret' = [ret EXCEPT ![p] = [NoRet EXCEPT !.status = loc[p].status,
                                                   !.merged_at = loc[p].merged_at,
                                                   !.reviewers = s]]
             ELSE /\ pc' = [pc EXCEPT ![p] = "mp_update"]
                  /\ UNCHANGED <<res, tx, ret>>
    /\ UNCHANGED <<db, clock, call, nops>>

\* BEGIN, s.now() and the UPDATE of MarkPullRequestMerged; it waits for an
\* uncommitted update of the same row
MergePullRequest_Update(p) ==
    /\ pc[p] = "mp_update"
    /\ WaitsOn(p) = {}
    /\ IF call[p].pr \notin DOMAIN pull_requests
       THEN /\ Finish(p, ErrPullRequestNotFound)
            /\ UNCHANGED <<clock, loc>>
       ELSE /\ tx' = [tx EXCEPT ![p].merge =
                        [id \in {call[p].pr} |->
                            MarkPullRequestMerged(pull_requests[call[p].pr], clock)]]
            /\ SetLoc(p, [loc[p] EXCEPT !.now = clock])
            /\ clock' = clock + 1
            /\ pc' = [pc EXCEPT ![p] = "mp_commit"]
            /\ res' = res
    /\ UNCHANGED <<db, call, ret, nops>>

MergePullRequest_Commit(p) ==
    /\ pc[p] = "mp_commit"
    /\ Commit(p)
    /\ pc' = [pc EXCEPT ![p] = "get_row"]
    /\ UNCHANGED <<clock, call, loc, res, ret, nops>>

\* ----------------------------------------- Service.ListReviewerPullRequests
\* one query on the pool
ListReviewerPullRequests(p, userID) ==
    /\ Invoke(p, [NoCall EXCEPT !.op = "ListReviewerPullRequests", !.user = userID])
    /\ SetLoc(p, NoLoc)
    /\ \E s \in ListPullRequestsForReviewer(userID) :
          ret' = [ret EXCEPT ![p] = [NoRet EXCEPT !.prs = s]]
    /\ Finish(p, OK)
    /\ UNCHANGED <<db, clock>>

\* ------------------------------------------------------------ the database
\* DeadlockAbort with the transaction committed, not rolled back, on the error
DeadlockAbort_Commit(p) ==
    /\ Deadlocked(p)
    /\ Commit(p)
    /\ pc' = [pc EXCEPT ![p] = "done"]
    /\ res' = [res EXCEPT ![p] = ErrInternal]
    /\ UNCHANGED <<clock, call, loc, ret, nops>>

\* PostgreSQL's deadlock detector: a transaction on a cycle of waits is
\* aborted, its statement returns an error and RunInTx rolls it back
DeadlockAbort(p) ==
    /\ Deadlocked(p)
    /\ Finish(p, ErrInternal)
    /\ UNCHANGED <<db, clock, call, loc, ret, nops>>

\* ------------------------------------------------------------ specification
\* a database a CreateTeam("t1", [u1..u5]) has populated
SeededUsers == [u \in Users |-> [username |-> "n1", active |-> TRUE]]

InitDB ==
    \/ /\ teams = {}
       /\ users = <<>>
       /\ team_memberships = {}
    \/ /\ teams = {"t1"}
       /\ users = SeededUsers
       /\ team_memberships = {<<"t1", u>> : u \in Users}

Init ==
    /\ InitDB
    /\ pull_requests = <<>>
    /\ pr_reviewers = {}
    /\ clock = 1
    /\ pc = [p \in Procs |-> "idle"]
    /\ call = [p \in Procs |-> NoCall]
    /\ loc = [p \in Procs |-> NoLoc]
    /\ tx = [p \in Procs |-> EmptyTx]
    /\ res = [p \in Procs |-> ""]
    /\ ret = [p \in Procs |-> NoRet]
    /\ nops = 0

Next ==
    \E p \in Procs :
        \/ \E t \in Teams, m \in MemberLists : CreateTeam_Insert(p, t, m)
        \/ CreateTeam_Member(p)
        \/ CreateTeam_Commit(p)
        \/ CreateTeam_Get(p)
        \/ \E u \in RequestUsers, a \in BOOLEAN : SetUserActivity(p, u, a)
        \/ \E id \in PRIds, u \in Authors : CreatePullRequest_GetUser(p, id, u)
        \/ CreatePullRequest_Insert(p)
        \/ CreatePullRequest_Select(p)
        \/ CreatePullRequest_AddCommit(p)
        \/ CreatePullRequest_AddFails(p)
        \/ \E id \in PRIds, u \in OldReviewers : ReassignReviewer_Get(p, id, u)
        \/ ReassignReviewer_Reviewers(p)
        \/ ReassignReviewer_GetUser(p)
        \/ ReassignReviewer_Select(p)
        \/ ReassignReviewer_Delete(p)
        \/ ReassignReviewer_Insert(p)
        \/ ReassignReviewer_Commit(p)
        \/ \E id \in PRIds : MergePullRequest_Get(p, id)
        \/ MergePullRequest_Reviewers(p)
        \/ MergePullRequest_Update(p)
        \/ MergePullRequest_Commit(p)
        \/ GetPullRequest_Row(p)
        \/ GetPullRequest_Reviewers(p)
        \/ DeadlockAbort(p)

Spec == Init /\ [][Next]_vars

\* --------------------------------------- specification: listing by reviewer
\* a database in which author u3 of the seeded team has opened pr1 (with
\* reviewers u1, u2) and then pr2 (with u4 and one of them), and pr2 may
\* have been merged
ListPRIds == {"pr1", "pr2"}
ListUsers == {"u1", "u2", "u4"}

InitList ==
    /\ teams = {"t1"}
    /\ users = SeededUsers
    /\ team_memberships = {<<"t1", u>> : u \in Users}
    /\ \E s2 \in {OPEN, MERGED} :
          /\ pull_requests =
                [id \in ListPRIds |->
                    IF id = "pr1" THEN NewPullRequest("u3", 1)
                    ELSE IF s2 = OPEN THEN NewPullRequest("u3", 2)
                    ELSE MarkPullRequestMerged(NewPullRequest("u3", 2), 3)]
          /\ clock = IF s2 = OPEN THEN 3 ELSE 4
    /\ \E r2 \in {<<"u1", "u4">>, <<"u2", "u4">>} :
          pr_reviewers = AddReviewers("pr1", <<"u1", "u2">>, 1) \cup AddReviewers("pr2", r2, 2)
    /\ pc = [p \in Procs |-> "idle"]
    /\ call = [p \in Procs |-> NoCall]
    /\ loc = [p \in Procs |-> NoLoc]
    /\ tx = [p \in Procs |-> EmptyTx]
    /\ res = [p \in Procs |-> ""]
    /\ ret = [p \in Procs |-> NoRet]
    /\ nops = 0

NextList ==
    \E p \in Procs :
        \/ \E u \in ListUsers : ListReviewerPullRequests(p, u)
        \/ \E id \in ListPRIds, u \in OldReviewers : ReassignReviewer_Get(p, id, u)
        \/ ReassignReviewer_Reviewers(p)
        \/ ReassignReviewer_GetUser(p)
        \/ ReassignReviewer_Select(p)
        \/ ReassignReviewer_Delete(p)
        \/ ReassignReviewer_Insert(p)
        \/ ReassignReviewer_Commit(p)
        \/ GetPullRequest_Row(p)
        \/ GetPullRequest_Reviewers(p)

SpecList == InitList /\ [][NextList]_vars

\* ------------------------------------------------- specification: progress
\* the databases of Init, and the seeded one with a pull request of author
\* u3 that u1 and u2 review; one call fewer than in Spec is left to take
InitLive ==
    /\ \/ /\ InitDB
          /\ pull_requests = <<>>
          /\ pr_reviewers = {}
          /\ clock = 1
       \/ /\ teams = {"t1"}
          /\ users = SeededUsers
          /\ team_memberships = {<<"t1", u>> : u \in Users}
          /\ pull_requests = [id \in PRIds |-> NewPullRequest("u3", 1)]
          /\ pr_reviewers = UNION {AddReviewers(id, <<"u1", "u2">>, 1) : id \in PRIds}
          /\ clock = 2
    /\ pc = [p \in Procs |-> "idle"]
    /\ call = [p \in Procs |-> NoCall]
    /\ loc = [p \in Procs |-> NoLoc]
    /\ tx = [p \in Procs |-> EmptyTx]
    /\ res = [p \in Procs |-> ""]
    /\ ret = [p \in Procs |-> NoRet]
    /\ nops = 1

\* the steps of a call that has been taken: the goroutine of a request runs
\* on, and the database executes a statement that waits for no lock
Step(p) ==
    \/ CreateTeam_Member(p)
    \/ CreateTeam_Commit(p)
    \/ CreateTeam_Get(p)
    \/ CreatePullRequest_Insert(p)
    \/ CreatePullRequest_Select(p)
    \/ CreatePullRequest_AddCommit(p)
    \/ ReassignReviewer_Reviewers(p)
    \/ ReassignReviewer_GetUser(p)
    \/ ReassignReviewer_Select(p)
    \/ ReassignReviewer_Delete(p)
    \/ ReassignReviewer_Insert(p)
    \/ ReassignReviewer_Commit(p)
    \/ MergePullRequest_Reviewers(p)
    \/ MergePullRequest_Update(p)
    \/ MergePullRequest_Commit(p)
    \/ GetPullRequest_Row(p)
    \/ GetPullRequest_Reviewers(p)
    \/ DeadlockAbort(p)

SpecLive == InitLive /\ [][Next]_vars /\ \A p \in Procs : WF_vars(Step(p))

\* =================================================================== claims
RowsOf(tbl, prID) == {x \in tbl : x.pr = prID}

IsMerged(prID) == prID \in DOMAIN pull_requests /\ pull_requests[prID].status = MERGED

Finished(p, op, err) == pc[p] = "done" /\ call[p].op = op /\ res[p] = err

\* C1: once a pull request is MERGED no step changes its reviewer rows, under
\* every interleaving of ReassignReviewer and MergePullRequest.
C1_FrozenAfterMerge ==
    [][\A id \in PRIds : IsMerged(id) => RowsOf(pr_reviewers', id) = RowsOf(pr_reviewers, id)]_vars

\* C2: a ReassignReviewer called on a pull request that is MERGED returns
\* PullRequestMerged whatever the old reviewer is (the merged check precedes
\* the assigned, user and candidate checks), opens no transaction and
\* changes no row.
C2_ReadMerged(p) == call[p].op = "ReassignReviewer" /\ loc[p].status = MERGED

C2_MergedReassignFails ==
    /\ [](\A p \in Procs : C2_ReadMerged(p) =>
             /\ pc[p] = "rr_revs" \/ Finished(p, "ReassignReviewer", ErrPullRequestMerged)
             /\ tx[p] = EmptyTx)
    /\ [][\A p \in Procs :
            /\ \A id \in PRIds, old \in OldReviewers :
                  (IsMerged(id) /\ ReassignReviewer_Get(p, id, old)) => C2_ReadMerged(p)'
            /\ (C2_ReadMerged(p) /\ pc[p] = "rr_revs" /\ pc'[p] # pc[p]) => db' = db]_vars

C2_Witness ==
    \E p \in Procs :
        /\ Finished(p, "ReassignReviewer", ErrPullRequestMerged)
        /\ IsMerged(call[p].pr)
        /\ call[p].user \notin Reviewers(call[p].pr)

\* C3: a CreateTeam called for a team name that already exists succeeds (it
\* does not return TeamExists).
C3_IdempotentCreateTeam ==
    [][\A p \in Procs, t \in Teams, m \in MemberLists :
          (t \in teams /\ CreateTeam_Insert(p, t, m)) => res'[p] # ErrTeamExists]_vars

\* C4: in every reachable state the author of a pull request is not among
\* its reviewers.
C4_NoSelfReview ==
    \A id \in DOMAIN pull_requests : pull_requests[id].author \notin Reviewers(id)

C4_Witness ==
    \E p \in Procs :
        /\ Finished(p, "ReassignReviewer", OK)
        /\ Reviewers(call[p].pr) # {}

\* C5: the commit of a ReassignReviewer(prID, old) leaves the reviewer set of
\* prID with the size it had, without old, with the replacement, and the
\* replacement is neither old, nor the author, nor a reviewer it already
\* had; no other step changes the number of reviewers of an existing pull
\* request, so the size is the one before the call.
C5_ReassignPreservesCardinality ==
    [][/\ \A id \in DOMAIN pull_requests :
            Cardinality(RowsOf(pr_reviewers', id)) = Cardinality(RowsOf(pr_reviewers, id))
       /\ \A p \in Procs : (pc[p] = "rr_commit" /\ pc'[p] # pc[p]) =>
            LET id == call[p].pr
                old == call[p].user
                new == loc[p].sel[1]
                before == Reviewers(id)
                after == Reviewers(id)'
            IN  /\ Cardinality(after) = Cardinality(before)
                /\ old \in before /\ old \notin after
                /\ new \notin before /\ new \in after
                /\ new # old /\ new # pull_requests[id].author
                /\ after \ {new} = before \ {old}]_vars

C5_Witness ==
    \E p \in Procs :
        /\ Finished(p, "ReassignReviewer", OK)
        /\ ret[p].replacement \in Reviewers(call[p].pr)
        /\ call[p].user \notin Reviewers(call[p].pr)

\* C6: two ReassignReviewer requests for the same pull request and the same
\* old reviewer that race: the assignment row is deleted by one transaction
\* at a time, at most one of the two commits its replacement for that row,
\* and the one whose DELETE finds the row gone returns ReviewerNotAssigned
\* with its transaction rolled back and no row changed.
C6_Committed(p) ==
    /\ call[p].op = "ReassignReviewer"
    /\ pc[p] \in {"get_row", "get_revs"} \/ (pc[p] = "done" /\ res[p] # ErrInternal)
    /\ loc[p].deleted # {}

C6_OneWinner ==
    /\ [](\A p, q \in Procs : p # q =>
             /\ tx[p].del \cap tx[q].del = {}
             /\ (C6_Committed(p) /\ C6_Committed(q)) => loc[p].deleted \cap loc[q].deleted = {})
    /\ [][\A p \in Procs :
            (/\ pc[p] = "rr_delete"
             /\ pc'[p] # pc[p]
             /\ call[p].user \notin Reviewers(call[p].pr)) =>
                /\ pc'[p] = "done"
                /\ res'[p] = ErrReviewerNotAssigned
                /\ tx'[p] = EmptyTx
                /\ db' = db]_vars

C6_Witness ==
    \E p, q \in Procs :
        /\ p # q
        /\ call[p].pr = call[q].pr /\ call[p].user = call[q].user
        /\ Finished(p, "ReassignReviewer", OK)
        /\ Finished(q, "ReassignReviewer", ErrReviewerNotAssigned)
        /\ Len(loc[q].sel) = 1
        /\ Reviewers(call[p].pr) = (Range(loc[q].reviewers) \ {call[p].user}) \cup {ret[p].replacement}

\* C7: a reassignment is all or nothing: every step leaves the reviewer rows
\* of an existing pull request as they are or replaces exactly one row by
\* one row of another reviewer, and no committed state holds a reviewer twice
\* for a pull request; a reassignment whose INSERT is rejected as a duplicate
\* leaves its old reviewer in place.
C7_NoDuplicate == \A id \in DOMAIN pull_requests : Cardinality(Reviewers(id)) = Cardinality(ReviewerRows(id))

C7_AllOrNothing ==
    /\ []C7_NoDuplicate
    /\ [][/\ \A id \in DOMAIN pull_requests :
              LET out == RowsOf(pr_reviewers, id) \ RowsOf(pr_reviewers', id)
                  in == RowsOf(pr_reviewers', id) \ RowsOf(pr_reviewers, id)
              IN  \/ out = {} /\ in = {}
                  \/ /\ Cardinality(out) = 1 /\ Cardinality(in) = 1
                     /\ \E p \in Procs : pc[p] = "rr_commit" /\ pc'[p] # pc[p]
                                          /\ out = tx[p].del /\ in = tx[p].ins
          /\ \A p \in Procs :
                (pc[p] = "rr_insert" /\ pc'[p] = "done") =>
                    /\ tx'[p] = EmptyTx
                    /\ db' = db
                    /\ call[p].user \in Reviewers(call[p].pr)']_vars

C7_Witness ==
    \E p, q \in Procs :
        /\ p # q
        /\ call[p].pr = call[q].pr /\ call[p].user # call[q].user
        /\ Finished(p, "ReassignReviewer", OK)
        /\ Finished(q, "ReassignReviewer", ErrInternal)
        /\ loc[q].sel = loc[p].sel
        /\ call[q].user \in Reviewers(call[q].pr)
        /\ Cardinality(ReviewerRows(call[q].pr)) = 2

\* C8: a CreatePullRequest that succeeds assigns exactly min(2, k) reviewers,
\* k being the number of active members, other than the author, of the team
\* the call resolved for the author, in the state its candidate query reads:
\* 2 when k >= 2, 1 when k = 1, none when k = 0.
C8_OtherActive(t, authorID) ==
    {u \in MembersOf(t) : u \in DOMAIN users /\ users[u].active /\ u # authorID}

C8_ReviewerBound ==
    [][\A p \in Procs :
          /\ (pc[p] = "cp_select" /\ pc'[p] # pc[p]) =>
                LET k == Cardinality(C8_OtherActive(loc[p].team, call[p].user))
                IN  /\ Len(loc'[p].sel) = Min(2, k)
                    /\ k >= 2 => Len(loc'[p].sel) = 2
                    /\ k = 1 => Len(loc'[p].sel) = 1
                    /\ k = 0 => Len(loc'[p].sel) = 0
          /\ (pc[p] = "cp_add" /\ pc'[p] = "get_row") =>
                /\ call[p].pr \in DOMAIN pull_requests'
                /\ Cardinality(RowsOf(pr_reviewers', call[p].pr)) = Len(loc[p].sel)]_vars

C8_Witness ==
    \E p \in Procs :
        /\ Finished(p, "CreatePullRequest", OK)
        /\ Len(loc[p].sel) = 1
        /\ Cardinality(C8_OtherActive(loc[p].team, call[p].user)) = 1
        /\ Reviewers(call[p].pr) = Range(loc[p].sel)

\* C9 as stated: in the state in which the creation commits, every reviewer
\* it records is an active member of the author's team other than the author.
C9_EligibleAtCommit ==
    [][\A p \in Procs :
          (pc[p] = "cp_add" /\ pc'[p] = "get_row") =>
              \A r \in Range(loc[p].sel) :
                  /\ r \in DOMAIN users' /\ users'[r].active
                  /\ \E t \in Teams : {<<t, r>>, <<t, call[p].user>>} \subseteq team_memberships'
                  /\ r # call[p].user]_vars

\* C9 as amended: every reviewer a creation records was, in the state its
\* candidate query read, an active member of the team the author lookup had
\* returned, other than the author; the rows committed are exactly the
\* candidates read.
C9_EligibleWhenSelected ==
    [][\A p \in Procs :
          /\ (pc[p] = "cp_select" /\ pc'[p] # pc[p]) =>
                \A r \in Range(loc'[p].sel) :
                    /\ r \in DOMAIN users /\ users[r].active
                    /\ <<loc[p].team, r>> \in team_memberships
                    /\ r # call[p].user
          /\ (pc[p] = "cp_add" /\ pc'[p] = "get_row") =>
                {x.reviewer : x \in RowsOf(pr_reviewers', call[p].pr)} = Range(loc[p].sel)]_vars

\* a creation that has just committed a reviewer who is inactive by then
C9_Witness ==
    \E p \in Procs :
        /\ call[p].op = "CreatePullRequest"
        /\ pc[p] = "get_row"
        /\ \E r \in Reviewers(call[p].pr) : ~users[r].active

\* C10: the replacement a ReassignReviewer picks is, in the state its
\* candidate query reads, an active member of the team the call resolved for
\* the replaced reviewer (which need not be the author's team), is neither
\* the author nor a reviewer of the pull request as read, and every such
\* member can be the one picked.
C10_Eligible(p) ==
    {u \in MembersOf(loc[p].team) :
        /\ u \in DOMAIN users /\ users[u].active
        /\ u # loc[p].author
        /\ u \notin Range(loc[p].reviewers)}

C10_ReplacementFromOldTeam ==
    /\ [](\A p \in Procs : pc[p] = "rr_select" =>
             \A u \in C10_Eligible(p) :
                 ENABLED (ReassignReviewer_Select(p) /\ loc'[p].sel = <<u>>))
    /\ [][\A p \in Procs :
            /\ (pc[p] = "rr_user" /\ pc'[p] = "rr_select") =>
                  loc'[p].team \in TeamsOf(call[p].user)
            /\ (pc[p] = "rr_select" /\ pc'[p] = "rr_delete") =>
                  /\ Len(loc'[p].sel) = 1
                  /\ loc'[p].sel[1] \in C10_Eligible(p)]_vars

\* a reassignment that has succeeded with a replacement from a team the
\* author is not in
C10_Witness ==
    \E p \in Procs :
        /\ Finished(p, "ReassignReviewer", OK)
        /\ ret[p].replacement \in Reviewers(call[p].pr)
        /\ loc[p].team \in TeamsOf(ret[p].replacement)
        /\ loc[p].team \notin TeamsOf(loc[p].author)

\* C11: a ReassignReviewer whose candidate query finds no active member of
\* the old reviewer's team outside the author and the reviewers read returns
\* NoCandidate, opens no transaction and changes no row (the reviewers stay
\* as they were); it returns NoCandidate from that query in no other case.
C11_NoCandidate ==
    [][\A p \in Procs :
          (pc[p] = "rr_select" /\ pc'[p] # pc[p]) =>
              /\ C10_Eligible(p) = {} =>
                    /\ pc'[p] = "done"
                    /\ res'[p] = ErrNoCandidate
                    /\ tx'[p] = EmptyTx
                    /\ db' = db
              /\ res'[p] = ErrNoCandidate => C10_Eligible(p) = {}]_vars

\* a reassignment refused with NoCandidate: the team of the old reviewer has
\* other members, all of them the author or reviewers of the pull request
C11_Witness ==
    \E p \in Procs :
        /\ Finished(p, "ReassignReviewer", ErrNoCandidate)
        /\ loc[p].team \in TeamsOf(call[p].user)
        /\ Cardinality(MembersOf(loc[p].team)) >= 2
        /\ MembersOf(loc[p].team) \subseteq {loc[p].author} \cup Range(loc[p].reviewers)
        /\ call[p].user \in Reviewers(call[p].pr)
        /\ Reviewers(call[p].pr) = Range(loc[p].reviewers)

\* C12: MergePullRequest is idempotent.  The commit of a merge leaves the
\* pull request MERGED with a merge timestamp; no step changes the row of a
\* MERGED pull request; a merge that reads the pull request MERGED writes
\* nothing and succeeds; and every MergePullRequest that has returned for an
\* existing pull request returned success, status MERGED and the merge
\* timestamp that is stored (the same one for every call).
C12_Returned(p) == call[p].op = "MergePullRequest" /\ pc[p] = "done"

C12_MergeIdempotent ==
    /\ [](\A p \in Procs : C12_Returned(p) =>
             \/ res[p] = ErrPullRequestNotFound /\ loc[p] = NoLoc
             \/ /\ res[p] = OK
                /\ IsMerged(call[p].pr)
                /\ ret[p].status = MERGED
                /\ ret[p].merged_at # NullTime
                /\ ret[p].merged_at = pull_requests[call[p].pr].merged_at)
    /\ [][/\ \A id \in PRIds : IsMerged(id) =>
                id \in DOMAIN pull_requests' /\ pull_requests'[id] = pull_requests[id]
          /\ \A p \in Procs :
                /\ (pc[p] = "mp_commit" /\ pc'[p] # pc[p]) =>
                      /\ IsMerged(call[p].pr)'
                      /\ pull_requests'[call[p].pr].merged_at # NullTime
                /\ (pc[p] = "mp_revs" /\ loc[p].status = MERGED /\ pc'[p] # pc[p]) =>
                      /\ pc'[p] = "done" /\ res'[p] = OK
                      /\ tx'[p] = EmptyTx
                      /\ db' = db]_vars

\* a merge of a pull request that was already MERGED when it was called
C12_Witness ==
    \E p \in Procs :
        /\ Finished(p, "MergePullRequest", OK)
        /\ loc[p].status = MERGED
        /\ ret[p].merged_at = pull_requests[call[p].pr].merged_at
        /\ ret[p].merged_at = loc[p].merged_at

\* C13: the merge timestamp is written at most once.  A stored merge
\* timestamp is never changed; the update of one merge at a time is
\* uncommitted; the commit of a merge stores the timestamp of that call only
\* when none is stored, so of two merges that both read the pull request
\* OPEN the first to commit sets it; and every merge that read the pull
\* request OPEN succeeds.
C13_MergedAtWrittenOnce ==
    /\ [](\A p, q \in Procs : p # q => DOMAIN tx[p].merge \cap DOMAIN tx[q].merge = {})
    /\ [][/\ \A id \in DOMAIN pull_requests :
                pull_requests[id].merged_at # NullTime =>
                    pull_requests'[id].merged_at = pull_requests[id].merged_at
          /\ \A p \in Procs :
                /\ (pc[p] = "mp_commit" /\ pc'[p] # pc[p]) =>
                      pull_requests'[call[p].pr].merged_at =
                          IF pull_requests[call[p].pr].merged_at # NullTime
                          THEN pull_requests[call[p].pr].merged_at
                          ELSE loc[p].now
                /\ (/\ call[p].op = "MergePullRequest" /\ loc[p].status = OPEN
                    /\ pc[p] # "done" /\ pc'[p] = "done") => res'[p] = OK]_vars

\* two merges that both read the pull request OPEN have both succeeded, and
\* the timestamp stored and returned is the one of the first
C13_Witness ==
    \E p, q \in Procs :
        /\ p # q
        /\ Finished(p, "MergePullRequest", OK) /\ Finished(q, "MergePullRequest", OK)
        /\ call[p].pr = call[q].pr
        /\ loc[p].status = OPEN /\ loc[q].status = OPEN
        /\ loc[p].now # NullTime /\ loc[p].now < loc[q].now
        /\ pull_requests[call[p].pr].merged_at = loc[p].now
        /\ ret[p].merged_at = loc[p].now /\ ret[q].merged_at = loc[p].now

\* C14: the status of a pull request only moves OPEN -> MERGED: a row is
\* OPEN in the state in which it first exists, every step keeps every row,
\* and a row that is MERGED stays MERGED.
C14_StatusMonotone ==
    [][\A id \in PRIds :
          /\ id \in DOMAIN pull_requests =>
                /\ id \in DOMAIN pull_requests'
                /\ pull_requests'[id].status \in {OPEN, MERGED}
                /\ pull_requests[id].status = MERGED => pull_requests'[id].status = MERGED
          /\ (id \notin DOMAIN pull_requests /\ id \in DOMAIN pull_requests') =>
                pull_requests'[id].status = OPEN]_vars

\* a reassignment has committed on a pull request a concurrent merge had
\* merged, and the pull request is still MERGED
C14_Witness ==
    \E p \in Procs :
        /\ Finished(p, "ReassignReviewer", OK)
        /\ loc[p].status = OPEN
        /\ ret[p].status = MERGED
        /\ IsMerged(call[p].pr)

C16_Listed(p) == {call[p].members[i].user : i \in DOMAIN call[p].members}

C16_CommitOf(p) == pc[p] = "ct_commit" /\ pc'[p] # pc[p]

C17_Fails(p) ==
    /\ call'[p].op = "CreateTeam"
    /\ pc'[p] = "done" /\ res'[p] # OK
    /\ <<pc[p], call[p], res[p]>> # <<pc'[p], call'[p], res'[p]>>

C18_DuplicateIdFails ==
    /\ [](\A p \in Procs :
             (call[p].op = "CreatePullRequest" /\ pc[p] \in {"cp_select", "cp_add"}) =>
                 call[p].pr \notin DOMAIN pull_requests)
    /\ [][\A p \in Procs :
            /\ \A id \in PRIds, u \in Authors :
                  (/\ id \in DOMAIN pull_requests
                   /\ u \in DOMAIN users /\ TeamsOf(u) # {}
                   /\ CreatePullRequest_GetUser(p, id, u)) => pc'[p] = "cp_insert"
            /\ (/\ pc[p] = "cp_insert" /\ pc'[p] # pc[p]
                /\ call[p].pr \in DOMAIN pull_requests) =>
                  /\ pc'[p] = "done"
                  /\ res'[p] = ErrPullRequestExists
                  /\ tx'[p] = EmptyTx
                  /\ db' = db]_vars

\* a creation by another author was refused for the id of a pull request
\* that is MERGED and has reviewers, with no other creation running
C18_Witness ==
    \E p \in Procs :
        /\ Finished(p, "CreatePullRequest", ErrPullRequestExists)
        /\ IsMerged(call[p].pr)
        /\ pull_requests[call[p].pr].author # call[p].user
        /\ Reviewers(call[p].pr) # {}
        /\ \A q \in Procs \ {p} : Finished(q, "MergePullRequest", OK)

\* C19: of the CreatePullRequest calls that race on one id, one transaction
\* at a time holds the uncommitted row and at most one commits; the commit
\* records the author and exactly the reviewers selected by the committing
\* call, at most 2; a call whose INSERT runs once another has committed gets
\* PullRequestExists and changes nothing; the author of a row never changes.
C19_Created(p) ==
    /\ call[p].op = "CreatePullRequest"
    /\ pc[p] \in {"get_row", "get_revs"} \/ (pc[p] = "done" /\ res[p] = OK)

C19_OneCreationCommits ==
    /\ [](\A p, q \in Procs : p # q =>
             /\ DOMAIN tx[p].prs \cap DOMAIN tx[q].prs = {}
             /\ ~(C19_Created(p) /\ C19_Created(q) /\ call[p].pr = call[q].pr))
    /\ [][/\ \A p \in Procs :
                /\ (pc[p] = "cp_add" /\ pc'[p] = "get_row") =>
                      /\ call[p].pr \notin DOMAIN pull_requests
                      /\ pull_requests'[call[p].pr].author = call[p].user
                      /\ Reviewers(call[p].pr)' = Range(loc[p].sel)
                      /\ Cardinality(Reviewers(call[p].pr)') <= 2
                /\ (/\ pc[p] = "cp_insert" /\ pc'[p] # pc[p]
                    /\ \E q \in Procs \ {p} : C19_Created(q) /\ call[q].pr = call[p].pr) =>
                      /\ res'[p] = ErrPullRequestExists
                      /\ db' = db
          /\ \A id \in DOMAIN pull_requests :
                pull_requests'[id].author = pull_requests[id].author]_vars

\* one creation has committed two reviewers and not yet returned, the
\* creation by another author for the same id has failed
C19_Witness ==
    \E p, q \in Procs :
        /\ p # q
        /\ call[p].op = "CreatePullRequest" /\ pc[p] \in {"get_row", "get_revs"}
        /\ Finished(q, "CreatePullRequest", ErrPullRequestExists)
        /\ call[p].pr = call[q].pr /\ call[p].user # call[q].user
        /\ pull_requests[call[p].pr].author = call[p].user
        /\ Len(loc[p].sel) = 2
        /\ Reviewers(call[p].pr) = Range(loc[p].sel)

\* C20: the creation of a pull request is atomic with its reviewers: the
\* step in which a row of pull_requests becomes committed is the commit of
\* its creation and commits the reviewer rows the call selected with it, no
\* reviewer row is committed for an absent pull request, and a creation that
\* ends in an error (also when AddReviewers fails) leaves every table as it
\* was, without the pull request row.
C20_CreationAtomic ==
    /\ [](\A r \in pr_reviewers : r.pr \in DOMAIN pull_requests)
    /\ [][/\ \A id \in PRIds :
                (id \notin DOMAIN pull_requests /\ id \in DOMAIN pull_requests') =>
                    \E p \in Procs :
                        /\ pc[p] = "cp_add" /\ pc'[p] = "get_row" /\ call[p].pr = id
                        /\ {x.reviewer : x \in RowsOf(pr_reviewers', id)} = Range(loc[p].sel)
          /\ \A p \in Procs :
                (pc[p] \in {"cp_insert", "cp_select", "cp_add"} /\ pc'[p] = "done") =>
                    /\ res'[p] # OK
                    /\ db' = db
                    /\ tx'[p] = EmptyTx
                    /\ pc[p] = "cp_add" => call[p].pr \notin DOMAIN pull_requests']_vars

\* a creation whose AddReviewers failed, by an author whose team has other
\* active members: the pull request does not exist and no reviewer row does
C20_Witness ==
    \E p \in Procs :
        /\ Finished(p, "CreatePullRequest", ErrInternal)
        /\ \E t \in TeamsOf(call[p].user) : C8_OtherActive(t, call[p].user) # {}
        /\ call[p].pr \notin DOMAIN pull_requests
        /\ RowsOf(pr_reviewers, call[p].pr) = {}

\* the step in which worker p takes a call of operation op
Called(p, op) ==
    /\ pc[p] \in {"idle", "done"}
    /\ call'[p].op = op
    /\ <<pc[p], call[p], res[p]>> # <<pc'[p], call'[p], res'[p]>>

\* C21: a CreatePullRequest whose author is not a stored user returns
\* UserNotFound, and one whose author has no membership row returns
\* TeamNotFound, whether or not the id exists; a known author with a team
\* goes on to the INSERT; the step changes no row and opens no transaction.
C21_AuthorChecksFirst ==
    [][\A p \in Procs : Called(p, "CreatePullRequest") =>
          LET u == call'[p].user
          IN  /\ u \notin DOMAIN users => pc'[p] = "done" /\ res'[p] = ErrUserNotFound
              /\ (u \in DOMAIN users /\ TeamsOf(u) = {}) =>
                    pc'[p] = "done" /\ res'[p] = ErrTeamNotFound
              /\ (u \in DOMAIN users /\ TeamsOf(u) # {}) => pc'[p] = "cp_insert"
              /\ db' = db
              /\ tx'[p] = EmptyTx]_vars

\* an unknown author got UserNotFound for an id that exists
C21_Witness ==
    \E p \in Procs :
        /\ Finished(p, "CreatePullRequest", ErrUserNotFound)
        /\ call[p].user \notin DOMAIN users
        /\ call[p].pr \in DOMAIN pull_requests

\* C22: a ReassignReviewer for an id that does not exist returns
\* PullRequestNotFound; one that read the pull request OPEN and names an old
\* reviewer with no assignment row returns ReviewerNotAssigned from its
\* checks; neither changes a row or opens a transaction.
C22_RejectsUnassigned ==
    [][\A p \in Procs :
          /\ (Called(p, "ReassignReviewer") /\ call'[p].pr \notin DOMAIN pull_requests) =>
                /\ pc'[p] = "done" /\ res'[p] = ErrPullRequestNotFound
                /\ db' = db /\ tx'[p] = EmptyTx
          /\ (/\ pc[p] = "rr_revs" /\ pc'[p] # pc[p]
              /\ loc[p].status = OPEN
              /\ call[p].user \notin Reviewers(call[p].pr)) =>
                /\ pc'[p] = "done" /\ res'[p] = ErrReviewerNotAssigned
                /\ db' = db /\ tx'[p] = EmptyTx]_vars

\* a reassignment of a user who does not review the OPEN pull request was
\* refused by the checks, before the user lookup
C22_Witness ==
    \E p \in Procs :
        /\ Finished(p, "ReassignReviewer", ErrReviewerNotAssigned)
        /\ loc[p].status = OPEN
        /\ loc[p].team = NoTeam /\ loc[p].deleted = {}
        /\ loc[p].reviewers # <<>>
        /\ call[p].user \notin Reviewers(call[p].pr)
        /\ Reviewers(call[p].pr) = Range(loc[p].reviewers)

\* C23: ListReviewerPullRequests(u) returns one short form for each pull
\* request, OPEN or MERGED, that has u among its reviewers in the state it
\* reads, and no other, the later created first, with the stored author and
\* status, and changes no row; the commit of a reassignment takes the pull
\* request out of that set for the old reviewer and into it for the
\* replacement.
C23_Reviewed(u) == {id \in DOMAIN pull_requests : u \in Reviewers(id)}

C23_ListByReviewer ==
    [][\A p \in Procs :
          /\ Called(p, "ListReviewerPullRequests") =>
                LET u == call'[p].user
                    l == ret'[p].prs
                IN  /\ pc'[p] = "done" /\ res'[p] = OK
                    /\ {l[i].id : i \in DOMAIN l} = C23_Reviewed(u)
                    /\ Len(l) = Cardinality(C23_Reviewed(u))
                    /\ \A i, j \in DOMAIN l : i < j =>
                          pull_requests[l[i].id].created_at > pull_requests[l[j].id].created_at
                    /\ \A i \in DOMAIN l : /\ l[i].status = pull_requests[l[i].id].status
                                           /\ l[i].author = pull_requests[l[i].id].author
                    /\ db' = db
          /\ (pc[p] = "rr_commit" /\ pc'[p] # pc[p]) =>
                /\ call[p].pr \in C23_Reviewed(call[p].user)
                /\ call[p].pr \notin C23_Reviewed(call[p].user)'
                /\ call[p].pr \notin C23_Reviewed(loc[p].sel[1])
                /\ call[p].pr \in C23_Reviewed(loc[p].sel[1])']_vars

\* after a reassignment, the replacement lists two pull requests, an OPEN
\* and a MERGED one, the one the reassignment gave it among them, and the
\* old reviewer no longer reviews that one
C23_Witness ==
    \E p, q \in Procs :
        /\ Finished(q, "ReassignReviewer", OK)
        /\ Finished(p, "ListReviewerPullRequests", OK)
        /\ call[p].user = ret[q].replacement
        /\ Len(ret[p].prs) = 2
        /\ ret[p].prs[1].id = "pr2" /\ ret[p].prs[1].status = MERGED
        /\ ret[p].prs[2].status = OPEN
        /\ call[q].pr \notin C23_Reviewed(call[q].user)

\* C24: a SetUserActivity for a user that is not stored returns UserNotFound
\* and changes no row (no user is created); for a stored user it succeeds,
\* sets the active flag of that user and of no other, keeps the username and
\* every other table, and returns the new flag with the team the user is in.
C24_SetUserActivity ==
    [][\A p \in Procs : Called(p, "SetUserActivity") =>
          LET u == call'[p].user
              a == call'[p].active
          IN  /\ pc'[p] = "done"
              /\ u \notin DOMAIN users => res'[p] = ErrUserNotFound /\ db' = db
              /\ u \in DOMAIN users =>
                    /\ res'[p] = OK
                    /\ DOMAIN users' = DOMAIN users
                    /\ users'[u] = [username |-> users[u].username, active |-> a]
                    /\ \A v \in DOMAIN users \ {u} : users'[v] = users[v]
                    /\ ret'[p].active = a
                    /\ ret'[p].team \in TeamsOf(u)
                    /\ <<teams, team_memberships, pull_requests, pr_reviewers>>' =
                          <<teams, team_memberships, pull_requests, pr_reviewers>>]_vars

\* a user that a CreateTeam had moved to team t2 was deactivated, and the
\* call returned the flag and that team
C24_Witness ==
    \E p \in Procs :
        /\ Finished(p, "SetUserActivity", OK)
        /\ ~ret[p].active /\ ~users[call[p].user].active
        /\ ret[p].team = "t2"
        /\ TeamsOf(call[p].user) = {"t2"}
        /\ \E v \in DOMAIN users \ {call[p].user} : users[v].active

\* C25: the reviewers a CreatePullRequest returns are in the order in which
\* it inserted their rows (the order of the candidates it selected), as long
\* as no reassignment has changed them.
C25_AssignmentOrder ==
    \A p \in Procs :
        (/\ Finished(p, "CreatePullRequest", OK)
         /\ Range(ret[p].reviewers) = Range(loc[p].sel)) => ret[p].reviewers = loc[p].sel

\* C26: under fair scheduling every call that has been taken returns, and a
\* call the database aborts has changed no row and keeps no uncommitted
\* write.
C26_EveryCallReturns ==
    /\ \A p \in Procs : (pc[p] \notin {"idle", "done"}) ~> (pc[p] = "done")
    /\ [][\A p \in Procs :
            (pc[p] \notin {"idle", "done"} /\ pc'[p] = "done" /\ res'[p] = ErrInternal) =>
                db' = db /\ tx'[p] = EmptyTx]_vars

\* two CreateTeam calls that upserted the same users in opposite orders have
\* both returned, one of them aborted
C26_Witness ==
    \E p, q \in Procs :
        /\ p # q
        /\ Finished(p, "CreateTeam", ErrInternal)
        /\ Finished(q, "CreateTeam", OK)
        /\ Len(call[p].members) = 2 /\ Len(call[q].members) = 2
        /\ call[p].members[1].user = call[q].members[2].user
        /\ call[p].members[2].user = call[q].members[1].user

\* C27 as stated: the pull request a successful ReassignReviewer returns
\* contains the returned replacement and not the old reviewer, whatever
\* commits between the call's commit and its read of the pull request.
C27_ReturnedHasReplacement ==
    \A p \in Procs :
        Finished(p, "ReassignReviewer", OK) =>
            /\ ret[p].replacement \in Range(ret[p].reviewers)
            /\ call[p].user \notin Range(ret[p].reviewers)

\* C27, amended: the commit of a ReassignReviewer leaves its replacement
\* among the reviewers of the pull request and the old reviewer not among
\* them; until the call returns, those reviewers change only when another
\* ReassignReviewer on the same pull request commits; and the call returns
\* the replacement it inserted with the reviewers committed when it reads.
C27_ReturnsRefreshed ==
    [][\A p \in Procs :
          LET id == call[p].pr
          IN  /\ (pc[p] = "rr_commit" /\ pc'[p] = "get_row") =>
                    /\ loc[p].sel[1] \in Reviewers(id)'
                    /\ call[p].user \notin Reviewers(id)'
              /\ (/\ call[p].op = "ReassignReviewer"
                  /\ pc[p] \in {"get_row", "get_revs"}
                  /\ Reviewers(id)' # Reviewers(id)) =>
                    \E q \in Procs \ {p} :
                        /\ call[q].op = "ReassignReviewer" /\ call[q].pr = id
                        /\ pc[q] = "rr_commit" /\ pc'[q] = "get_row"
              /\ (/\ call[p].op = "ReassignReviewer"
                  /\ pc[p] = "get_revs" /\ pc'[p] = "done") =>
                    /\ res'[p] = OK
                    /\ ret'[p].replacement = loc[p].sel[1]
                    /\ Range(ret'[p].reviewers) = Reviewers(id)
                    /\ Len(ret'[p].reviewers) = Cardinality(Reviewers(id))]_vars

\* a successful ReassignReviewer has returned a pull request that lacks its
\* replacement: another reassignment replaced it before the read
C27_Witness ==
    \E p, q \in Procs :
        /\ p # q
        /\ Finished(p, "ReassignReviewer", OK)
        /\ ret[p].replacement \notin Range(ret[p].reviewers)
        /\ call[q].op = "ReassignReviewer" /\ call[q].pr = call[p].pr
        /\ call[q].user = ret[p].replacement
        /\ pc[q] \in {"get_row", "get_revs", "done"}

\* C28: in every state every pull request has at most 2 reviewer rows and no
\* reviewer has two rows for one pull request, whatever creations and
\* reassignments have interleaved.
C28_AtMostTwoDistinct ==
    \A id \in PRIds :
        /\ Cardinality(ReviewerRows(id)) <= 2
        /\ Cardinality(Reviewers(id)) = Cardinality(ReviewerRows(id))

\* both reviewers of a pull request have been replaced by two reassignments,
\* and it has two reviewers
C28_Witness ==
    \E p, q \in Procs, id \in PRIds :
        /\ p # q
        /\ Finished(p, "ReassignReviewer", OK) /\ call[p].pr = id
        /\ Finished(q, "ReassignReviewer", OK) /\ call[q].pr = id
        /\ call[p].user # call[q].user
        /\ Cardinality(Reviewers(id)) = 2
        /\ Reviewers(id) \cap {call[p].user, call[q].user} = {}

\* C29: in every state a pull request row, committed or written by an open
\* transaction, has a merge timestamp if and only if its status is MERGED.
C29_MergedIffTimestamp ==
    LET Agree(row) == (row.merged_at # NullTime) <=> (row.status = MERGED)
    IN  /\ \A id \in DOMAIN pull_requests : Agree(pull_requests[id])
        /\ \A p \in Procs :
              /\ \A id \in DOMAIN tx[p].prs : Agree(tx[p].prs[id])
              /\ \A id \in DOMAIN tx[p].merge : Agree(tx[p].merge[id])

\* a merge has committed: the row is MERGED with the timestamp of that merge,
\* which the call returned
C29_Witness ==
    \E p \in Procs :
        /\ Finished(p, "MergePullRequest", OK)
        /\ pull_requests[call[p].pr].status = MERGED
        /\ pull_requests[call[p].pr].merged_at = loc[p].now
        /\ loc[p].now # NullTime
        /\ ret[p].merged_at = loc[p].now

C31_LeavesPullRequests ==
    [][\A p \in Procs :
          (/\ call'[p].op \in {"CreateTeam", "SetUserActivity"}
           /\ <<pc[p], call[p], loc[p], tx[p], res[p], ret[p]>> #
                 <<pc'[p], call'[p], loc'[p], tx'[p], res'[p], ret'[p]>>) =>
              /\ pull_requests' = pull_requests
              /\ pr_reviewers' = pr_reviewers
              /\ tx'[p].prs = <<>> /\ tx'[p].merge = <<>>
              /\ tx'[p].ins = {} /\ tx'[p].del = {}]_vars

\* an OPEN pull request keeps both reviewers after a SetUserActivity has
\* deactivated one of them and a CreateTeam has moved the other out of the
\* author's team
C31_Witness ==
    \E p, q \in Procs, id \in PRIds :
        /\ p # q
        /\ id \in DOMAIN pull_requests /\ pull_requests[id].status = OPEN
        /\ Finished(p, "SetUserActivity", OK)
        /\ call[p].user \in Reviewers(id) /\ ~users[call[p].user].active
        /\ Finished(q, "CreateTeam", OK)
        /\ \E r \in Reviewers(id) \ {call[p].user} :
              /\ r \in {call[q].members[i].user : i \in DOMAIN call[q].members}
              /\ TeamsOf(r) = {call[q].team}
              /\ call[q].team \notin TeamsOf(pull_requests[id].author)
        /\ Cardinality(Reviewers(id)) = 2
====
